---- MODULE Spec2Model ----
(***************************************************************************)
(* Job tracker (src/app.py): two scrapers feed an ingestion run that       *)
(* upserts listings into a SQLite store; a scheduler thread repeats the    *)
(* run every six hours while Flask handlers read the store and edit the    *)
(* bookmark table.                                                         *)
(*                                                                         *)
(* A text is a string; Chars gives its characters, on which lower(),       *)
(* strip() and the substring test are computed. An optional value (a tag   *)
(* BeautifulSoup may not find) is a sequence of length 0 or 1.             *)
(***************************************************************************)
EXTENDS Integers, Sequences, FiniteSets, Bags, TLC

(***************************** bounds **************************************)
\* Largest clock reading; datetime.now() never goes past it.
MaxClock == 1
\* Number of process restarts explored.
MaxRestarts == 1
\* Largest LIMIT the ordering properties are examined for.
MaxLimit == 3
\* Clock readings per second (scaled down from the 10^6 of datetime).
UsecPerSec == 2

(***************************** text ****************************************)
\* The texts of the pages and of the placeholder listings, and what strip()
\* makes of them.
Texts ==
    << " Python Developer ", "Python Developer", "Head of IT ", "Head of IT",
       "Warehouse Associate", "Acme ", "Acme", "today",
       "Part-time Python Developer", "Remote Frontend Engineer (Part-time)",
       "Part-time Data Analyst", "TechCorp", "WebStack Inc", "DataCo",
       "Remote", "1 day ago", "2 days ago", "3 days ago", "Unknown", "" >>

\* The characters of each text, in the order of Texts.
Spelling ==
    << <<" ","P","y","t","h","o","n"," ","D","e","v","e","l","o","p","e","r"," ">>,
       <<"P","y","t","h","o","n"," ","D","e","v","e","l","o","p","e","r">>,
       <<"H","e","a","d"," ","o","f"," ","I","T"," ">>,
       <<"H","e","a","d"," ","o","f"," ","I","T">>,
       <<"W","a","r","e","h","o","u","s","e"," ","A","s","s","o","c","i","a","t","e">>,
       <<"A","c","m","e"," ">>,
       <<"A","c","m","e">>,
       <<"t","o","d","a","y">>,
       <<"P","a","r","t","-","t","i","m","e"," ","P","y","t","h","o","n"," ","D","e","v","e","l","o","p","e","r">>,
       <<"R","e","m","o","t","e"," ","F","r","o","n","t","e","n","d"," ","E","n","g","i","n","e","e","r"," ","(","P","a","r","t","-","t","i","m","e",")">>,
       <<"P","a","r","t","-","t","i","m","e"," ","D","a","t","a"," ","A","n","a","l","y","s","t">>,
       <<"T","e","c","h","C","o","r","p">>,
       <<"W","e","b","S","t","a","c","k"," ","I","n","c">>,
       <<"D","a","t","a","C","o">>,
       <<"R","e","m","o","t","e">>,
       <<"1"," ","d","a","y"," ","a","g","o">>,
       <<"2"," ","d","a","y","s"," ","a","g","o">>,
       <<"3"," ","d","a","y","s"," ","a","g","o">>,
       <<"U","n","k","n","o","w","n">>,
       <<>> >>

Chars(s) == Spelling[CHOOSE i \in 1..Len(Texts) : Texts[i] = s]
Text(cs) == Texts[CHOOSE i \in 1..Len(Texts) : Spelling[i] = cs]

UpperCase == <<"A","B","C","D","E","F","G","H","I","J","K","L","M","N","O","P","Q","R","S","T","U","V","W","X","Y","Z">>
LowerCase == <<"a","b","c","d","e","f","g","h","i","j","k","l","m","n","o","p","q","r","s","t","u","v","w","x","y","z">>

\* str.lower() on one character
LowerChar(c) ==
    IF \E i \in 1..Len(UpperCase) : UpperCase[i] = c
    THEN LowerCase[CHOOSE i \in 1..Len(UpperCase) : UpperCase[i] = c]
    ELSE c

\* A comparison that keeps the case: the characters as they are.
KeepCase(cs) == cs

\* str.lower(), on characters
Lower(cs) == [i \in 1..Len(cs) |-> LowerChar(cs[i])]

\* Python's  kw in s , on characters
Contains(cs, kw) ==
    \E i \in 0..(Len(cs) - Len(kw)) : SubSeq(cs, i + 1, i + Len(kw)) = kw

IsSpace(c) == c \in {" ", "\t", "\n"}

\* str.strip(), on characters
StripChars(cs) ==
    LET keep == {i \in 1..Len(cs) : ~IsSpace(cs[i])}
    IN  IF keep = {} THEN <<>>
        ELSE LET lo == CHOOSE i \in keep : \A j \in keep : i <= j
                 hi == CHOOSE i \in keep : \A j \in keep : j <= i
             IN  SubSeq(cs, lo, hi)

\* str.strip()
Strip(s) == Text(StripChars(Chars(s)))

tech_keywords ==
    << <<"s","o","f","t","w","a","r","e">>,
       <<"d","e","v","e","l","o","p","e","r">>,
       <<"e","n","g","i","n","e","e","r">>,
       <<"i","t"," ">>,
       <<"c","y","b","e","r">>,
       <<"d","a","t","a">>,
       <<"w","e","b">>,
       <<"p","y","t","h","o","n">>,
       <<"j","a","v","a">>,
       <<"j","a","v","a","s","c","r","i","p","t">>,
       <<"a","n","a","l","y","s","t">>,
       <<"d","e","v","o","p","s">>,
       <<"c","l","o","u","d">>,
       <<"s","e","c","u","r","i","t","y">>,
       <<"f","r","o","n","t","e","n","d">>,
       <<"b","a","c","k","e","n","d">>,
       <<"f","u","l","l"," ","s","t","a","c","k">> >>

\* JobScraper.is_tech_job
is_tech_job(title) ==
    \E k \in 1..Len(tech_keywords) :
        Contains(Lower(Chars(title)), tech_keywords[k])

(***************************** scraping ************************************)
IndeedBase == "https://www.indeed.com"
WwrBase == "https://weworkremotely.com"

\* urllib.parse.urljoin(base, href): an href that names no host is resolved
\* against the base, an absolute one is kept.
urljoin(base, href) ==
    IF href.host = "" THEN [host |-> base, path |-> href.path] ELSE href

Paths == <<"/a", "/b">>
Bases == <<IndeedBase, WwrBase>>
\* The hash seeds a process may draw.
Seeds == {0, 1}

\* Position of a resolved URL in the enumeration of the URLs the pages hold.
UrlCode(url) ==
    LET b == CHOOSE i \in 1..Len(Bases) : Bases[i] = url.host
        p == CHOOSE i \in 1..Len(Paths) : Paths[i] = url.path
    IN  (b - 1) * Len(Paths) + (p - 1)

\* hash(job_url): Python salts str hashes with a seed drawn when the process
\* starts, so the value is a function of the string and of the process's seed.
PyHash(seed, url) == seed * (Len(Bases) * Len(Paths)) + UrlCode(url)

\* The job cards a page may hold (title, company, date: text of the tag when
\* the tag is found; href: the first anchor's href when there is an anchor).
CardDev ==
    [title |-> <<" Python Developer ">>, company |-> <<"Acme ">>,
     date |-> <<"today">>, href |-> << [host |-> "", path |-> "/a"] >>]
CardIT ==
    [title |-> <<"Head of IT ">>, company |-> <<>>,
     date |-> <<>>, href |-> << [host |-> "", path |-> "/a"] >>]
CardWarehouse ==
    [title |-> <<"Warehouse Associate">>, company |-> <<"Acme ">>,
     date |-> <<"today">>, href |-> << [host |-> "", path |-> "/b"] >>]
CardNoAnchor ==
    [title |-> <<" Python Developer ">>, company |-> <<"Acme ">>,
     date |-> <<"today">>, href |-> <<>>]
CardNoTitle ==
    [title |-> <<>>, company |-> <<>>,
     date |-> <<>>, href |-> << [host |-> "", path |-> "/b"] >>]

\* What requests.get + raise_for_status + find_all give a scraper: an
\* exception (connection error, timeout, HTTP error status) or a page's job
\* cards. The pages: relevant cards (two of them for one URL), cards the
\* filter rejects, a card without anchor after a relevant one.
IndeedPages ==
    { <<CardDev>>, <<CardDev, CardIT>>, <<CardWarehouse, CardNoTitle>>,
      <<CardDev, CardNoAnchor>> }
WwrPages ==
    { <<CardDev>>, <<CardWarehouse>> }
FetchesOf(pages) ==
    {[ok |-> FALSE, cards |-> <<>>]} \cup {[ok |-> TRUE, cards |-> p] : p \in pages}

\* The dict appended to jobs for one card (src/app.py:121-129, 160-168).
Listing(prefix, source, base, job, seed) ==
    LET job_url == urljoin(base, job.href[1])
    IN  [id |-> <<prefix, PyHash(seed, job_url)>>,
         title |-> Strip(job.title[1]),
         company |-> IF job.company # <<>> THEN Strip(job.company[1]) ELSE "Unknown",
         location |-> "Remote",
         posted_date |-> IF job.date # <<>> THEN Strip(job.date[1]) ELSE "Unknown",
         url |-> job_url,
         source |-> source]

\* A scraper without its except clause: the exception leaves the function.
Propagated(listed) == [jobs |-> listed, error |-> TRUE, raised |-> TRUE]

\* The except clause of a scraper: the error is logged and the function goes
\* on to  return jobs  with the listings appended before the exception.
CaughtException(listed) == [jobs |-> listed, error |-> TRUE, raised |-> FALSE]

\* if title and self.is_tech_job(title.text)
Relevant(job) == job.title # <<>> /\ is_tech_job(job.title[1])

\* The for loop over the job cards: a listing is appended for every relevant
\* card, up to the first relevant card without anchor, on which
\* job.find('a')['href'] raises TypeError.
ExtractCards(cards, prefix, source, base, seed) ==
    LET raising == {i \in 1..Len(cards) : Relevant(cards[i]) /\ cards[i].href = <<>>}
        stop == IF raising = {} THEN Len(cards) + 1
                ELSE CHOOSE i \in raising : \A j \in raising : i <= j
        taken == SelectSeq(SubSeq(cards, 1, stop - 1), Relevant)
        listed == [k \in 1..Len(taken) |-> Listing(prefix, source, base, taken[k], seed)]
    IN  IF raising = {} THEN [jobs |-> listed, error |-> FALSE, raised |-> FALSE]
        ELSE CaughtException(listed)

\* JobScraper.scrape_indeed
scrape_indeed(fetch, seed) ==
    IF ~fetch.ok THEN CaughtException(<<>>)
    ELSE ExtractCards(fetch.cards, "indeed", "Indeed", IndeedBase, seed)

\* JobScraper.scrape_weworkremotely
scrape_weworkremotely(fetch, seed) ==
    IF ~fetch.ok THEN CaughtException(<<>>)
    ELSE ExtractCards(fetch.cards, "wwr", "WeWorkRemotely", WwrBase, seed)

\* JobScraper.load_test_data
load_test_data ==
    << [id |-> <<"test", 1>>, title |-> "Part-time Python Developer",
        company |-> "TechCorp", location |-> "Remote",
        posted_date |-> "1 day ago",
        url |-> [host |-> "https://example.com", path |-> "/job1"],
        source |-> "Test Data"],
       [id |-> <<"test", 2>>, title |-> "Remote Frontend Engineer (Part-time)",
        company |-> "WebStack Inc", location |-> "Remote",
        posted_date |-> "2 days ago",
        url |-> [host |-> "https://example.com", path |-> "/job2"],
        source |-> "Test Data"],
       [id |-> <<"test", 3>>, title |-> "Part-time Data Analyst",
        company |-> "DataCo", location |-> "Remote",
        posted_date |-> "3 days ago",
        url |-> [host |-> "https://example.com", path |-> "/job3"],
        source |-> "Test Data"] >>

(***************************** store ***************************************)
Digits == <<"0", "1", "2", "3", "4", "5", "6", "7", "8", "9">>

\* datetime.isoformat(), seconds and fraction only: two digits of seconds,
\* then the fraction, which isoformat() leaves out when it is zero.
IsoFormat(t) ==
    LET sec == t \div UsecPerSec
        usec == t % UsecPerSec
    IN  <<Digits[(sec \div 10) + 1], Digits[(sec % 10) + 1]>>
            \o (IF usec = 0 THEN <<>> ELSE <<".", Digits[usec + 1]>>)

\* Code points of the characters of a timestamp, in ASCII order.
CharOrd(c) ==
    IF c = "." THEN 46
    ELSE 47 + (CHOOSE i \in 1..Len(Digits) : Digits[i] = c)

\* a < b for TEXT values under SQLite's BINARY collation (memcmp, then length)
TextLess(a, b) ==
    \E i \in 1..Len(b) :
        /\ \A j \in 1..(i - 1) : j <= Len(a) /\ a[j] = b[j]
        /\ \/ i = Len(a) + 1
           \/ i <= Len(a) /\ CharOrd(a[i]) < CharOrd(b[i])

\* The tuple bound to INSERT OR REPLACE INTO jobs VALUES (?, ..., ?)
Row(job, timestamp) ==
    [id |-> job.id, title |-> job.title, company |-> job.company,
     location |-> job.location, posted_date |-> job.posted_date,
     url |-> job.url, source |-> job.source, timestamp |-> timestamp]

\* INSERT INTO a table jobs that has no key: the row is added.
InsertNoKey(tbl, row) == tbl \cup {row}

\* INSERT OR IGNORE INTO jobs: a row that conflicts on id is not inserted.
InsertOrIgnore(tbl, row) ==
    IF \E r \in tbl : r.id = row.id THEN tbl ELSE tbl \cup {row}

\* DELETE FROM jobs, then INSERT: the table is rebuilt from the new row on.
InsertTruncate(tbl, row) == {row}

\* INSERT OR REPLACE INTO jobs: id is the PRIMARY KEY, so the rows that
\* conflict on id are deleted and the new row is inserted.
InsertOrReplace(tbl, row) == {r \in tbl : r.id # row.id} \cup {row}

\* A connection that issues PRAGMA foreign_keys = ON.
ForeignKeysOn == TRUE

\* The application never issues PRAGMA foreign_keys = ON, and SQLite enforces
\* FOREIGN KEY clauses only on connections that do.
ForeignKeys == FALSE

IdsOf(tbl) == {r.id : r \in tbl}

\* INSERT INTO a table saved_jobs that has no key.
InsertBookmarkNoKey(saved, tbl, job_id, busy) ==
    IF busy THEN [saved |-> saved, err |-> TRUE]
    ELSE [saved |-> saved (+) SetToBag({job_id}), err |-> FALSE]

\* INSERT INTO saved_jobs VALUES (?): job_id is the PRIMARY KEY. err is the
\* sqlite3.Error the statement raises: IntegrityError on a constraint,
\* OperationalError (database is locked) when the write lock is still taken
\* at the end of the connection's busy timeout.
InsertBookmark(saved, tbl, job_id, busy) ==
    IF busy \/ BagIn(job_id, saved) \/ (ForeignKeys /\ job_id \notin IdsOf(tbl))
    THEN [saved |-> saved, err |-> TRUE]
    ELSE [saved |-> saved (+) SetToBag({job_id}), err |-> FALSE]

\* DELETE FROM saved_jobs WHERE job_id = ?
DeleteBookmark(saved, job_id, busy) ==
    IF busy THEN [saved |-> saved, err |-> TRUE]
    ELSE [saved |-> [x \in (DOMAIN saved) \ {job_id} |-> saved[x]], err |-> FALSE]

\* except sqlite3.Error in save_job_bookmark / remove_job_bookmark: the error
\* is logged and the method returns None.
BookmarkCaught(saved) == [saved |-> saved, raised |-> FALSE, logged |-> TRUE]

\* JobDatabase.save_job_bookmark
save_job_bookmark(saved, tbl, job_id, busy) ==
    LET res == InsertBookmark(saved, tbl, job_id, busy)
    IN  IF res.err THEN BookmarkCaught(saved)
        ELSE [saved |-> res.saved, raised |-> FALSE, logged |-> FALSE]

\* JobDatabase.remove_job_bookmark
remove_job_bookmark(saved, job_id, busy) ==
    LET res == DeleteBookmark(saved, job_id, busy)
    IN  IF res.err THEN BookmarkCaught(saved)
        ELSE [saved |-> res.saved, raised |-> FALSE, logged |-> FALSE]

\* jobs j LEFT JOIN saved_jobs sj ON j.id = sj.job_id: one joined row per
\* matching saved_jobs row, and one with sj.job_id NULL when none matches.
LeftJoin(tbl, saved) ==
    UNION { {[j |-> r, matched |-> BagIn(r.id, saved), k |-> k] :
                k \in 1..(IF BagIn(r.id, saved) THEN CopiesIn(r.id, saved) ELSE 1)} :
            r \in tbl }

\* ORDER BY timestamp ASC LIMIT ?
RECURSIVE OrderAscLimit(_, _)
OrderAscLimit(rows, limit) ==
    IF rows = {} \/ limit = 0 THEN {<<>>}
    ELSE LET first == {r \in rows : \A q \in rows :
                           ~TextLess(q.j.timestamp, r.j.timestamp)}
         IN  UNION { {<<m>> \o s : s \in OrderAscLimit(rows \ {m}, limit - 1)} :
                     m \in first }

\* ORDER BY timestamp DESC LIMIT ?: every list of the first limit rows of an
\* order of the joined rows in which the timestamps never increase (SQL
\* leaves the order of equal keys open). A negative limit is no limit.
RECURSIVE OrderDescLimit(_, _)
OrderDescLimit(rows, limit) ==
    IF rows = {} \/ limit = 0 THEN {<<>>}
    ELSE LET first == {r \in rows : \A q \in rows :
                           ~TextLess(r.j.timestamp, q.j.timestamp)}
         IN  UNION { {<<m>> \o s : s \in OrderDescLimit(rows \ {m}, limit - 1)} :
                     m \in first }

\* The dict with  'saved': bool(row[7]) , the timestamp column.
JobDictSavedFromTimestamp(x) ==
    [id |-> x.j.id, title |-> x.j.title, company |-> x.j.company,
     location |-> x.j.location, posted_date |-> x.j.posted_date,
     url |-> x.j.url, source |-> x.j.source, timestamp |-> x.j.timestamp,
     saved |-> x.j.timestamp # <<>>]

\* The dict built from one fetched row (src/app.py:214-224).
JobDict(x) ==
    [id |-> x.j.id, title |-> x.j.title, company |-> x.j.company,
     location |-> x.j.location, posted_date |-> x.j.posted_date,
     url |-> x.j.url, source |-> x.j.source, timestamp |-> x.j.timestamp,
     saved |-> x.matched]

\* JobDatabase.get_jobs: the lists the query may return.
get_jobs(tbl, saved, limit) ==
    { [i \in 1..Len(s) |-> JobDict(s[i])] :
        s \in OrderDescLimit(LeftJoin(tbl, saved), limit) }

\* def get_jobs(self, limit=50)
DefaultLimit == 50

(***************************** processes ***********************************)
\* "main" runs the __main__ block: the initial scrape, then app.run(), whose
\* request handlers it stands for from then on; "sched" is scheduler_thread.
Threads == {"main", "sched"}

NoReply == [op |-> "none"]
NoOwner == "none"

\* The job ids the bookmark requests name: a placeholder's id, which is in
\* table jobs only once a run has fallen back to the placeholders, and an id
\* that no scraper and no placeholder ever produces.
OrphanId == <<"gone", 0>>
RequestIds == {<<"test", 1>>, OrphanId}

VARIABLES
    jobs_tbl,    \* table jobs of jobs.db, as committed: a set of rows
    saved_jobs,  \* table saved_jobs of jobs.db, as committed: a bag of job_id
    now,         \* the last reading of datetime.now()
    hashSeed,    \* the str hash seed of the running process
    pc,          \* where each thread is
    jobs,        \* the list jobs of each thread's scrape_all_jobs
    fetched,     \* what the two requests.get of the thread's run returned
    rowErrors,   \* the rows of the thread's batch whose INSERT raises sqlite3.Error
    failed,      \* the sources whose scraper logged an error in the thread's run
    txnOwner,    \* the thread whose connection holds the write lock of jobs.db
    due,         \* the scheduled job's next_run has passed
    reply,       \* the response of the handler that ran in the last step
    restarts     \* number of restarts so far

vars == <<jobs_tbl, saved_jobs, now, hashSeed, pc, jobs, fetched, failed,
          rowErrors, txnOwner, due, reply, restarts>>

NoFetch == [indeed |-> [ok |-> FALSE, cards |-> <<>>],
            wwr |-> [ok |-> FALSE, cards |-> <<>>]]

\* init_db on a new jobs.db, the module-level statements, scheduler_thread
\* started: main is about to run the __main__ block.
Init ==
    /\ jobs_tbl = {}
    /\ saved_jobs = EmptyBag
    /\ now = 0
    /\ hashSeed \in Seeds
    /\ pc = [t \in Threads |-> IF t = "main" THEN "boot" ELSE "poll"]
    /\ jobs = [t \in Threads |-> <<>>]
    /\ fetched = [t \in Threads |-> NoFetch]
    /\ failed = [t \in Threads |-> {}]
    /\ rowErrors = [t \in Threads |-> {}]
    /\ txnOwner = NoOwner
    /\ due = FALSE
    /\ reply = NoReply
    /\ restarts = 0

\* Thread t is inside scrape_all_jobs.
InRun(t) == pc[t] \in {"scrape", "commit"}

\* scrape_all_jobs, entry:  jobs = []
BeginRun(t) ==
    /\ pc' = [pc EXCEPT ![t] = "scrape"]
    /\ jobs' = [jobs EXCEPT ![t] = <<>>]
    /\ fetched' = [fetched EXCEPT ![t] = NoFetch]
    /\ failed' = [failed EXCEPT ![t] = {}]
    /\ rowErrors' = [rowErrors EXCEPT ![t] = {}]
    /\ reply' = NoReply
    /\ UNCHANGED <<jobs_tbl, saved_jobs, now, hashSeed, txnOwner, due, restarts>>

\* __main__: the initial scrape, on the main thread
StartupRun ==
    /\ pc["main"] = "boot"
    /\ BeginRun("main")

\* Six hours have passed since the job's next run was set.
TimerElapse ==
    /\ ~due
    /\ due' = TRUE
    /\ reply' = NoReply
    /\ UNCHANGED <<jobs_tbl, saved_jobs, now, hashSeed, pc, jobs, fetched, failed, rowErrors,
                   txnOwner, restarts>>

\* run_scheduler: schedule.run_pending() finds the job due and calls it on
\* the scheduler thread.
run_pending ==
    /\ pc["sched"] = "poll"
    /\ due
    /\ BeginRun("sched")

\* jobs.extend(job_scraper.load_test_data()) on every run
FallbackAlways(scraped) == scraped \o load_test_data

\* if not jobs: jobs = job_scraper.load_test_data()
Fallback(scraped) == IF scraped = <<>> THEN load_test_data ELSE scraped

\* scrape_all_jobs up to the call of save_jobs, given what the two fetches
\* return: the list handed to save_jobs, the sources that logged an error,
\* and whether an exception left scrape_all_jobs.
Scraped(fi, fw, seed) ==
    LET i == scrape_indeed(fi, seed)
        w == scrape_weworkremotely(fw, seed)
    IN  IF i.raised THEN [jobs |-> i.jobs, failed |-> {"Indeed"}, raised |-> TRUE]
        ELSE [jobs |-> IF w.raised THEN i.jobs \o w.jobs
                       ELSE Fallback(i.jobs \o w.jobs),
              failed |-> (IF i.error THEN {"Indeed"} ELSE {})
                            \cup (IF w.error THEN {"WeWorkRemotely"} ELSE {}),
              raised |-> w.raised]

\* Every result of the scraping phase, per hash seed.
ScrapeResults ==
    [seed \in Seeds |->
        {[indeed |-> fi, wwr |-> fw, out |-> Scraped(fi, fw, seed)] :
            fi \in FetchesOf(IndeedPages), fw \in FetchesOf(WwrPages)}]

\* scrape_all_jobs up to the first INSERT of save_jobs: both scrapers, the
\* fallback, sqlite3.connect. The first INSERT takes the write lock of
\* jobs.db, which the connection keeps until it commits; a connection that
\* finds the lock taken waits for it.
Scrape(t) ==
    /\ pc[t] = "scrape"
    /\ \E run \in ScrapeResults[hashSeed] :
        /\ fetched' = [fetched EXCEPT ![t] = [indeed |-> run.indeed, wwr |-> run.wwr]]
        /\ jobs' = [jobs EXCEPT ![t] = run.out.jobs]
        /\ failed' = [failed EXCEPT ![t] = run.out.failed]
        /\ IF run.out.raised
           THEN pc' = [pc EXCEPT ![t] = "raised"] /\ UNCHANGED txnOwner
           ELSE /\ txnOwner = NoOwner
                /\ txnOwner' = t
                /\ pc' = [pc EXCEPT ![t] = "commit"]
    /\ reply' = NoReply
    /\ UNCHANGED <<jobs_tbl, saved_jobs, now, hashSeed, rowErrors, due, restarts>>

\* The loop of save_jobs cut short at the first INSERT that raises.
RECURSIVE InsertRowsStopAtError(_, _, _, _, _)
InsertRowsStopAtError(tbl, batch, i, clock, bad) ==
    IF i > Len(batch) THEN {[tbl |-> tbl, now |-> clock]}
    ELSE UNION { IF i \in bad THEN {[tbl |-> tbl, now |-> c]}
                 ELSE InsertRowsStopAtError(
                          InsertOrReplace(tbl, Row(batch[i], IsoFormat(c))),
                          batch, i + 1, c, bad) : c \in clock..MaxClock }

\* The for loop of save_jobs from position i on, each iteration an INSERT OR
\* REPLACE with a fresh datetime.now(): the tables it may leave, each with
\* the last clock reading. The INSERT of a row in bad raises sqlite3.Error,
\* which the except clause of the loop logs; the loop goes on.
RECURSIVE InsertRowsExcept(_, _, _, _, _)
InsertRowsExcept(tbl, batch, i, clock, bad) ==
    IF i > Len(batch) THEN {[tbl |-> tbl, now |-> clock]}
    ELSE UNION { InsertRowsExcept(
                     IF i \in bad THEN tbl
                     ELSE InsertOrReplace(tbl, Row(batch[i], IsoFormat(c))),
                     batch, i + 1, c, bad) : c \in clock..MaxClock }

\* The loop of save_jobs when no INSERT raises.
InsertRows(tbl, batch, i, clock) == InsertRowsExcept(tbl, batch, i, clock, {})

\* The ids of the batch whose INSERT OR REPLACE deletes a row of table jobs:
\* one that was there, or one an earlier row of the batch put there.
ReplacedIds(tbl, batch, bad) ==
    {batch[k].id : k \in {m \in 1..Len(batch) :
        /\ m \notin bad
        /\ \/ batch[m].id \in IdsOf(tbl)
           \/ \E q \in 1..(m - 1) : q \notin bad /\ batch[q].id = batch[m].id}}

\* A schema whose FOREIGN KEY has ON DELETE CASCADE, enforced.
CascadeDelete(saved, job_id) ==
    [x \in (DOMAIN saved) \ {job_id} |-> saved[x]]

\* What deleting the jobs row job_id does to saved_jobs: the FOREIGN KEY of
\* saved_jobs has no ON DELETE action and is not enforced, so nothing.
ReferencedRowDeleted(saved, job_id) == saved

\* saved_jobs after the rows with the given ids were replaced.
RECURSIVE AfterReplaced(_, _)
AfterReplaced(saved, ids) ==
    IF ids = {} THEN saved
    ELSE LET job_id == CHOOSE x \in ids : TRUE
         IN  AfterReplaced(ReferencedRowDeleted(saved, job_id), ids \ {job_id})

\* JobDatabase.save_jobs: the loop, conn.commit(), conn.close(); then
\* scrape_all_jobs returns. No other connection sees the rows before the
\* commit or writes while the lock is held. On the scheduler thread the
\* schedule library then sets the job's next run six hours ahead.
save_jobs(t) ==
    /\ pc[t] = "commit"
    /\ txnOwner = t
    /\ \E res \in InsertRowsExcept(jobs_tbl, jobs[t], 1, now, rowErrors[t]) :
        /\ jobs_tbl' = res.tbl
        /\ now' = res.now
    /\ saved_jobs' = AfterReplaced(saved_jobs,
                                   ReplacedIds(jobs_tbl, jobs[t], rowErrors[t]))
    /\ txnOwner' = NoOwner
    /\ pc' = [pc EXCEPT ![t] = IF t = "main" THEN "serving" ELSE "poll"]
    /\ due' = IF t = "sched" THEN FALSE ELSE due
    /\ jobs' = [jobs EXCEPT ![t] = <<>>]
    /\ fetched' = [fetched EXCEPT ![t] = NoFetch]
    /\ failed' = [failed EXCEPT ![t] = {}]
    /\ rowErrors' = [rowErrors EXCEPT ![t] = {}]
    /\ reply' = NoReply
    /\ UNCHANGED <<hashSeed, restarts>>

\* The storage fails on the INSERT of one row of thread t's batch (disk I/O
\* error, database is locked): c.execute raises sqlite3.Error.
row_error(t) ==
    /\ pc[t] = "commit"
    /\ txnOwner = t
    /\ rowErrors[t] = {}
    /\ \E k \in 1..Len(jobs[t]) : rowErrors' = [rowErrors EXCEPT ![t] = {k}]
    /\ reply' = NoReply
    /\ UNCHANGED <<jobs_tbl, saved_jobs, now, hashSeed, pc, jobs, fetched,
                   failed, txnOwner, due, restarts>>

\* conn.commit() of save_jobs while a request's connection keeps its read
\* lock past the busy timeout: sqlite3.OperationalError, which nothing
\* between conn.commit() and the thread's entry point catches. The
\* transaction is rolled back when the connection is collected.
commit_busy(t) ==
    /\ pc[t] = "commit"
    /\ txnOwner = t
    /\ pc["main"] = "serving"
    /\ pc' = [pc EXCEPT ![t] = "raised"]
    /\ txnOwner' = NoOwner
    /\ jobs' = [jobs EXCEPT ![t] = <<>>]
    /\ fetched' = [fetched EXCEPT ![t] = NoFetch]
    /\ failed' = [failed EXCEPT ![t] = {}]
    /\ rowErrors' = [rowErrors EXCEPT ![t] = {}]
    /\ reply' = NoReply
    /\ UNCHANGED <<jobs_tbl, saved_jobs, now, hashSeed, due, restarts>>

\* route /: job_db.get_jobs() with the default limit, rendered into the
\* page. Nothing of the program's state changes; the page shows one of
\* get_jobs(jobs_tbl, saved_jobs, DefaultLimit) of this very state.
index ==
    /\ pc["main"] = "serving"
    /\ reply' = [op |-> "index"]
    /\ UNCHANGED <<jobs_tbl, saved_jobs, now, hashSeed, pc, jobs, fetched, failed, rowErrors,
                   txnOwner, due, restarts>>

\* What a bookmark handler sends back: jsonify({'status': 'success'}), or
\* Flask's error response if the call raised.
Status(res) == IF res.raised THEN "error" ELSE "success"

\* route /save_job/<job_id>. busy: the write lock of jobs.db is still taken
\* when the connection's busy timeout ends.
SaveJob(job_id, busy) ==
    /\ pc["main"] = "serving"
    /\ LET res == save_job_bookmark(saved_jobs, jobs_tbl, job_id, busy)
       IN  /\ saved_jobs' = res.saved
           /\ reply' = [op |-> "save_job", job_id |-> job_id,
                        status |-> Status(res), logged |-> res.logged]
    /\ UNCHANGED <<jobs_tbl, now, hashSeed, pc, jobs, fetched, failed, rowErrors, txnOwner, due,
                   restarts>>

\* route /unsave_job/<job_id>
UnsaveJob(job_id, busy) ==
    /\ pc["main"] = "serving"
    /\ LET res == remove_job_bookmark(saved_jobs, job_id, busy)
       IN  /\ saved_jobs' = res.saved
           /\ reply' = [op |-> "unsave_job", job_id |-> job_id,
                        status |-> Status(res), logged |-> res.logged]
    /\ UNCHANGED <<jobs_tbl, now, hashSeed, pc, jobs, fetched, failed, rowErrors, txnOwner, due,
                   restarts>>

\* The handlers once the write lock is free (a connection waits for it).
save_job(job_id) == txnOwner = NoOwner /\ SaveJob(job_id, FALSE)
unsave_job(job_id) == txnOwner = NoOwner /\ UnsaveJob(job_id, FALSE)

\* The handlers when a save_jobs transaction keeps the write lock for longer
\* than the busy timeout of sqlite3.connect (5 seconds).
save_job_busy(job_id) == txnOwner # NoOwner /\ SaveJob(job_id, TRUE)
unsave_job_busy(job_id) == txnOwner # NoOwner /\ UnsaveJob(job_id, TRUE)

\* The process is stopped and started again: jobs.db stays, an open
\* transaction is rolled back, and the new process draws its own hash seed.
Restart ==
    /\ restarts < MaxRestarts
    /\ restarts' = restarts + 1
    /\ hashSeed' \in Seeds
    /\ pc' = [t \in Threads |-> IF t = "main" THEN "boot" ELSE "poll"]
    /\ jobs' = [t \in Threads |-> <<>>]
    /\ fetched' = [t \in Threads |-> NoFetch]
    /\ failed' = [t \in Threads |-> {}]
    /\ rowErrors' = [t \in Threads |-> {}]
    /\ txnOwner' = NoOwner
    /\ due' = FALSE
    /\ reply' = NoReply
    /\ UNCHANGED <<jobs_tbl, saved_jobs, now>>

Next ==
    \/ StartupRun
    \/ TimerElapse
    \/ run_pending
    \/ \E t \in Threads : Scrape(t)
    \/ \E t \in Threads : save_jobs(t)
    \/ index
    \/ \E job_id \in RequestIds : save_job(job_id)
    \/ \E job_id \in RequestIds : unsave_job(job_id)

\* One lifetime of the process.
Spec == Init /\ [][Next]_vars

\* The process over its restarts.
SpecRestart == Init /\ [][Next \/ Restart]_vars

\* One lifetime, with write transactions that may outlast the busy timeout.
BusyNext ==
    \/ Next
    \/ \E job_id \in RequestIds : save_job_busy(job_id)
    \/ \E job_id \in RequestIds : unsave_job_busy(job_id)
    \/ \E t \in Threads : commit_busy(t)

SpecBusy == Init /\ [][BusyNext]_vars

\* One lifetime, with a storage that may fail on single rows.
RowErrorNext ==
    \/ Next
    \/ \E t \in Threads : row_error(t)

SpecRowError == Init /\ [][RowErrorNext]_vars

(***************************** properties **********************************)
Sources == {"Indeed", "WeWorkRemotely"}

Min(a, b) == IF a <= b THEN a ELSE b

\* Every listing a run may hand to save_jobs, per hash seed.
ListingsOf ==
    [seed \in Seeds |->
        UNION { {run.out.jobs[k] : k \in 1..Len(run.out.jobs)} :
                run \in ScrapeResults[seed] }]

\* A row without its fetch time: the listing a reader can tell from others.
Observable(r) ==
    [id |-> r.id, title |-> r.title, company |-> r.company,
     location |-> r.location, posted_date |-> r.posted_date,
     url |-> r.url, source |-> r.source]

ObservableRows(tbl) == {Observable(r) : r \in tbl}

\* The fetch time a stored timestamp text stands for.
FetchTime(text) == CHOOSE c \in 0..MaxClock : IsoFormat(c) = text

\* The step in which thread t's save_jobs commits.
Commits(t) ==
    /\ pc[t] = "commit"
    /\ pc'[t] \notin {"commit", "raised"}
    /\ restarts' = restarts

\* The last listing of a batch that carries the id of its k-th listing.
LastWithId(batch, k) ==
    batch[CHOOSE m \in k..Len(batch) :
              /\ batch[m].id = batch[k].id
              /\ \A q \in (m + 1)..Len(batch) : batch[q].id # batch[k].id]

\* C1, the state part: for every listing L, save_jobs([L]) applied twice
\* leaves the same listings as applied once: the same ids, the same fields,
\* exactly one row with L's id, and that row has L's fields.
C1_TwiceAsOnce ==
    \A L \in ListingsOf[hashSeed] :
        \A once \in InsertRows(jobs_tbl, <<L>>, 1, now) :
            LET seen == ObservableRows(once.tbl)
                rows == Cardinality(once.tbl)
            IN  \A twice \in InsertRows(once.tbl, <<L>>, 1, once.now) :
                    /\ ObservableRows(twice.tbl) = seen
                    /\ Cardinality(twice.tbl) = rows
                    /\ {r \in twice.tbl : r.id = L.id}
                           = {Row(L, IsoFormat(twice.now))}

\* C1 (upsert idempotence): from every reachable state and for every listing
\* L, save_jobs([L]) applied twice leaves what applying it once leaves, but
\* for the fetch time of L's row, and no commit of save_jobs changes the
\* bookmarks.
C1_UpsertIdempotent ==
    /\ [] C1_TwiceAsOnce
    /\ [][\A t \in Threads : Commits(t) => saved_jobs' = saved_jobs]_vars

\* A run is about to store, as its whole batch, a listing that an earlier
\* run has stored with the same fields.
C1_Witness ==
    \E t \in Threads :
        /\ pc[t] = "commit"
        /\ Len(jobs[t]) = 1
        /\ \E r \in jobs_tbl : Observable(r) = jobs[t][1]

\* C2 (identity stability): two rows of the same source with the same URL
\* have the same id, whichever process lifetime stored them.
C2_StableId ==
    \A r1, r2 \in jobs_tbl :
        (r1.source = r2.source /\ r1.url = r2.url) => r1.id = r2.id

\* What each scraper makes of each fetch, per hash seed.
IndeedResults ==
    [seed \in Seeds |->
        [f \in FetchesOf(IndeedPages) |-> scrape_indeed(f, seed)]]

WwrResults ==
    [seed \in Seeds |->
        [f \in FetchesOf(WwrPages) |-> scrape_weworkremotely(f, seed)]]

\* What the scraper of source src made of the thread's fetch.
ScraperResult(t, src) ==
    IF src = "Indeed" THEN IndeedResults[hashSeed][fetched[t].indeed]
    ELSE WwrResults[hashSeed][fetched[t].wwr]

\* C3 (source isolation), the state part: no exception of a scraper leaves
\* the run, and when a scraper has failed, the batch handed to save_jobs
\* holds every listing the other scraper returned, and the run's connection
\* has the write lock its inserts need.
C3_BatchKeepsOthers ==
    \A t \in Threads :
        /\ pc[t] # "raised"
        /\ (pc[t] = "commit" /\ failed[t] # {}) =>
            /\ txnOwner = t
            /\ \A src \in Sources \ failed[t] :
                 LET got == ScraperResult(t, src).jobs
                 IN  \A k \in 1..Len(got) :
                        \E m \in 1..Len(jobs[t]) : jobs[t][m] = got[k]

\* C3, the step part: the commit of a run in which a scraper failed leaves a
\* row for every listing the other scraper returned.
C3_CommitKeepsOthers ==
    \A t \in Threads :
        (Commits(t) /\ failed[t] # {}) =>
            \A src \in Sources \ failed[t] :
                LET got == ScraperResult(t, src).jobs
                IN  \A k \in 1..Len(got) :
                       \E r \in jobs_tbl' :
                           Observable(r) = LastWithId(got, k)

\* C3 (source isolation): a run in which one scraper fails still completes,
\* and every relevant listing the other scraper returned is in table jobs
\* afterwards.
C3_SourceIsolation == [] C3_BatchKeepsOthers /\ [][C3_CommitKeepsOthers]_vars

\* One scraper failed, the other returned a listing, and the run is storing.
C3_Witness ==
    \E t \in Threads :
        /\ pc[t] = "commit"
        /\ \E src \in Sources :
            /\ failed[t] = Sources \ {src}
            /\ ScraperResult(t, src).jobs # <<>>
            /\ jobs[t] = ScraperResult(t, src).jobs

PlaceholderIds == {load_test_data[k].id : k \in 1..Len(load_test_data)}

\* C4 (fallback guarantees a non-empty store): after a run in which every
\* scraper failed, or in which no candidate passed the relevance filter,
\* table jobs holds at least the placeholder listings.
C4_PlaceholdersStored ==
    [][\A t \in Threads :
         (Commits(t) /\ (failed[t] = Sources \/ jobs[t] = load_test_data)) =>
             PlaceholderIds \subseteq IdsOf(jobs_tbl')]_vars

DistinctTimes(tbl) ==
    \A r1, r2 \in tbl : r1 # r2 => r1.timestamp # r2.timestamp

Orphans == {id \in BagToSet(saved_jobs) : id \notin IdsOf(jobs_tbl)}

WithoutOrphans == [id \in BagToSet(saved_jobs) \ Orphans |-> saved_jobs[id]]

\* C6 (orphaned bookmark tolerance): a save_job request for an id that table
\* jobs does not hold succeeds and records the bookmark, and while such
\* bookmarks exist the read query succeeds and returns what it would
\* return without them.
C6_OrphanTolerated ==
    /\ (reply.op = "save_job" /\ reply.job_id \notin IdsOf(jobs_tbl)) =>
           /\ reply.status = "success"
           /\ BagIn(reply.job_id, saved_jobs)
    /\ Orphans # {} =>
           /\ LeftJoin(jobs_tbl, saved_jobs) = LeftJoin(jobs_tbl, WithoutOrphans)
           /\ \A n \in {1, 2} :
               LET served == get_jobs(jobs_tbl, saved_jobs, n)
               IN  /\ served # {}
                   /\ served = get_jobs(jobs_tbl, WithoutOrphans, n)

\* The index page was served while a bookmark had no listing and table jobs
\* had rows.
C6_Witness ==
    /\ reply.op = "index"
    /\ OrphanId \in Orphans
    /\ jobs_tbl # {}

\* C7 (bookmark idempotence): from every reachable state, bookmarking an id
\* twice leaves what bookmarking it once leaves, with the id exactly once in
\* saved_jobs; removing it twice leaves what removing it once leaves;
\* removing an id that is not bookmarked changes nothing; none of them
\* raises.
C7_BookmarkIdempotent ==
    \A id \in RequestIds :
        LET s1 == save_job_bookmark(saved_jobs, jobs_tbl, id, FALSE)
            s2 == save_job_bookmark(s1.saved, jobs_tbl, id, FALSE)
            r1 == remove_job_bookmark(saved_jobs, id, FALSE)
            r2 == remove_job_bookmark(r1.saved, id, FALSE)
        IN  /\ ~s1.raised /\ ~s2.raised /\ ~r1.raised /\ ~r2.raised
            /\ s2.saved = s1.saved
            /\ BagIn(id, s1.saved) /\ CopiesIn(id, s1.saved) = 1
            /\ r2.saved = r1.saved
            /\ ~BagIn(id, r1.saved)
            /\ ~BagIn(id, saved_jobs) => r1.saved = saved_jobs
            /\ \A other \in BagToSet(saved_jobs) \ {id} :
                 /\ CopiesIn(other, s1.saved) = CopiesIn(other, saved_jobs)
                 /\ CopiesIn(other, r1.saved) = CopiesIn(other, saved_jobs)

\* A save_job request named an id that was bookmarked already (the INSERT
\* was refused and logged), and the id is bookmarked once.
C7_Witness ==
    /\ reply.op = "save_job"
    /\ reply.logged
    /\ reply.status = "success"
    /\ CopiesIn(reply.job_id, saved_jobs) = 1

\* C8 (no-overlap scheduling): at most one thread is inside scrape_all_jobs.
C8_NoOverlap == ~(InRun("main") /\ InRun("sched"))

\* C9, the step part: a commit leaves one row per id of the batch, with the
\* fields of the last listing of the batch that has the id, leaves the other
\* rows as they were, and adds a row only for an id that had none.
C9_CommitReplaces ==
    \A t \in Threads :
        Commits(t) =>
            LET batch == jobs[t]
                ids == {batch[k].id : k \in 1..Len(batch)}
            IN  /\ Cardinality(jobs_tbl')
                       = Cardinality(IdsOf(jobs_tbl) \cup ids)
                /\ \A k \in 1..Len(batch) :
                     {Observable(r) : r \in {q \in jobs_tbl' : q.id = batch[k].id}}
                         = {LastWithId(batch, k)}
                /\ {r \in jobs_tbl' : r.id \notin ids}
                       = {r \in jobs_tbl : r.id \notin ids}

\* C9 (id uniqueness): no two rows of table jobs have the same id, and an
\* upsert of an id that has a row replaces that row's other fields without
\* changing the number of rows, also when a batch holds the id twice.
C9_IdUnique ==
    /\ [](\A r1, r2 \in jobs_tbl : r1.id = r2.id => r1 = r2)
    /\ [][C9_CommitReplaces]_vars

\* Table jobs holds the second of two listings that one batch carried under
\* one id.
C9_Witness ==
    \E r \in jobs_tbl :
        /\ r.title = "Head of IT"
        /\ \A q \in jobs_tbl : q.id = r.id => q = r

\* C10 (bookmark acknowledgment): when the response to a save_job request
\* says success, the id is in saved_jobs.
C10_SuccessMeansSaved ==
    (reply.op = "save_job" /\ reply.status = "success") =>
        BagIn(reply.job_id, saved_jobs)

TextSet == {Texts[i] : i \in 1..Len(Texts)}

\* The texts for which is_tech_job is true.
RelevantTexts == {s \in TextSet : is_tech_job(s)}

\* The texts in which a keyword occurs at some offset, letter case apart.
KeywordTexts ==
    {s \in TextSet :
        \E n \in 1..Len(tech_keywords) :
            \E off \in 0..Len(Chars(s)) :
                /\ off + Len(tech_keywords[n]) <= Len(Chars(s))
                /\ \A j \in 1..Len(tech_keywords[n]) :
                     LowerChar(Chars(s)[off + j]) = tech_keywords[n][j]}

Stripped == [s \in TextSet |-> Strip(s)]

\* The job cards of the page thread t fetched from source src.
CardsOf(t, src) ==
    IF src = "Indeed" THEN fetched[t].indeed.cards ELSE fetched[t].wwr.cards

\* C11 (filter correctness, the listings part as the code has it):
\* is_tech_job is defined on every text and true exactly for the texts that
\* contain a keyword, letter case apart; it is true for "Part-time Python
\* Developer" and false for "Warehouse Associate"; and every listing a
\* scraper returns comes from a job card whose title text, as it is on the
\* page, passes is_tech_job and whose stripped title text is the listing's
\* title.
C11_FilterOnPageTitle ==
    /\ RelevantTexts = KeywordTexts
    /\ "Part-time Python Developer" \in RelevantTexts
    /\ "Warehouse Associate" \in TextSet \ RelevantTexts
    /\ \A t \in Threads :
         pc[t] = "commit" =>
            \A src \in Sources :
                LET got == ScraperResult(t, src).jobs
                    cards == CardsOf(t, src)
                IN  \A k \in 1..Len(got) :
                       \E m \in 1..Len(cards) :
                           /\ cards[m].title # <<>>
                           /\ cards[m].title[1] \in RelevantTexts
                           /\ Stripped[cards[m].title[1]] = got[k].title

\* C11 as stated: every listing a scraper returns has a title for which
\* is_tech_job is true.
C11_ListedTitlePasses ==
    \A t \in Threads :
        pc[t] = "commit" =>
            \A src \in Sources :
                LET got == ScraperResult(t, src).jobs
                IN  \A k \in 1..Len(got) : got[k].title \in RelevantTexts

\* A run is storing a listing whose title passed the filter only with the
\* blank that strip() then removed.
C11_Witness ==
    \E t \in Threads :
        /\ pc[t] = "commit"
        /\ \E k \in 1..Len(jobs[t]) :
            /\ jobs[t][k].title = "Head of IT"
            /\ "Head of IT " \in RelevantTexts
            /\ "Head of IT" \notin RelevantTexts

\* The last listing of a batch, among the rows outside bad, that carries the
\* id of its k-th listing.
LastGoodWithId(batch, k, bad) ==
    batch[CHOOSE m \in (k..Len(batch)) \ bad :
              /\ batch[m].id = batch[k].id
              /\ \A q \in ((m + 1)..Len(batch)) \ bad : batch[q].id # batch[k].id]

\* C12, the step part: the commit of a batch of which a row failed leaves a
\* row for every other listing of the batch, with that listing's fields (of
\* the last of them, if several have the id).
C12_OthersStored ==
    \A t \in Threads :
        (Commits(t) /\ rowErrors[t] # {}) =>
            /\ pc'[t] \in {"serving", "poll"}
            /\ \A k \in (1..Len(jobs[t])) \ rowErrors[t] :
                 \E r \in jobs_tbl' :
                     Observable(r) = LastGoodWithId(jobs[t], k, rowErrors[t])

\* C12 (row-failure isolation): when the INSERT of one listing of a batch
\* raises sqlite3.Error, save_jobs does not raise, and every other listing of
\* the batch, before and after the failing one, is in table jobs with its new
\* fields when save_jobs returns.
C12_RowFailureIsolated ==
    /\ [](\A t \in Threads : pc[t] # "raised" /\ (rowErrors[t] # {} => txnOwner = t))
    /\ [][C12_OthersStored]_vars

\* The INSERT of the second of three rows has failed and the loop goes on.
C12_Witness ==
    \E t \in Threads :
        /\ pc[t] = "commit"
        /\ rowErrors[t] = {2}
        /\ Len(jobs[t]) = 3

\* C13 (soft failure yields an empty result): a scraper that logged an error
\* returned the empty list.
C13_FailedMeansEmpty ==
    \A t \in Threads :
        pc[t] = "commit" =>
            \A src \in failed[t] : ScraperResult(t, src).jobs = <<>>

\* C14 (serving is never blocked by pipeline network I/O): while a run is in
\* its fetch phase, every request handler can run.
C14_ServingDuringFetch ==
    (\E t \in Threads : pc[t] = "scrape") =>
        /\ ENABLED index
        /\ \A job_id \in RequestIds :
             ENABLED save_job(job_id) /\ ENABLED unsave_job(job_id)

\* C15 (scheduler liveness across soft failures): no exception leaves a run,
\* whatever the sources and the store do.
C15_RunNeverRaises == \A t \in Threads : pc[t] # "raised"

\* C16 (deterministic tie-breaking): the read query has one result per state
\* and limit.
C16_OneOrder ==
    \A n \in {1, 2} : Cardinality(get_jobs(jobs_tbl, saved_jobs, n)) <= 1

\* C17 (bookmark annotation): every entry of a result of the read query has
\* saved true exactly when its id is in saved_jobs, has the id of a row of
\* table jobs, and shares its id with no other entry (checked where the
\* index page, the one caller of get_jobs, has been served); and in every
\* state the join the results are cut from has one row per row of table jobs
\* with saved as said.
C17_SavedFlag ==
    /\ Cardinality(LeftJoin(jobs_tbl, saved_jobs)) = Cardinality(jobs_tbl)
    /\ \A x \in LeftJoin(jobs_tbl, saved_jobs) :
         /\ JobDict(x).saved = BagIn(x.j.id, saved_jobs)
         /\ x.j \in jobs_tbl
    /\ reply.op = "index" =>
         \A n \in {1, 2} :
         \A s \in get_jobs(jobs_tbl, saved_jobs, n) :
             \A i \in 1..Len(s) :
                 /\ s[i].saved = BagIn(s[i].id, saved_jobs)
                 /\ s[i].id \in IdsOf(jobs_tbl)
                 /\ \A j \in 1..Len(s) : s[j].id = s[i].id => j = i

\* The index page was served with a bookmarked and an unbookmarked listing
\* among its entries.
C17_Witness ==
    /\ reply.op = "index"
    /\ \E x, y \in LeftJoin(jobs_tbl, saved_jobs) :
           JobDict(x).saved /\ ~JobDict(y).saved

\* C18, the step part.
C18_Frame ==
    /\ \A t \in Threads :
         Commits(t) =>
            /\ saved_jobs' = saved_jobs
            /\ \A k \in 1..Len(jobs[t]) :
                 BagIn(jobs[t][k].id, saved_jobs) =>
                     \A x \in LeftJoin(jobs_tbl', saved_jobs') :
                         x.j.id = jobs[t][k].id => JobDict(x).saved
    /\ reply'.op \in {"save_job", "unsave_job"} => jobs_tbl' = jobs_tbl

\* C18 (re-ingestion preserves bookmarks): a commit of save_jobs leaves
\* saved_jobs as it was, and a listing that was bookmarked and is upserted
\* again is reported with saved true afterwards; the bookmark handlers leave
\* table jobs as it was.
C18_BookmarksKept == [][C18_Frame]_vars

\* A run is upserting again a listing that is stored and bookmarked.
C18_Witness ==
    \E t \in Threads :
        /\ pc[t] = "commit"
        /\ \E k \in 1..Len(jobs[t]) :
            /\ BagIn(jobs[t][k].id, saved_jobs)
            /\ jobs[t][k].id \in IdsOf(jobs_tbl)

\* Both requests of thread t's run failed: no source could be reached.
Unreachable(t) == ~fetched[t].indeed.ok /\ ~fetched[t].wwr.ok

\* C19 (stale data is kept): no step takes an id out of table jobs, and the
\* commit of a run that reached no source leaves every scraped row as it
\* was, fetch time included (that run upserts the placeholders).
C19_StaleKept ==
    [][/\ IdsOf(jobs_tbl) \subseteq IdsOf(jobs_tbl')
       /\ \A t \in Threads :
            (Commits(t) /\ Unreachable(t)) =>
                \A r \in jobs_tbl : r.id \notin PlaceholderIds => r \in jobs_tbl']_vars

\* A run that reached no source is storing while table jobs holds a scraped
\* listing.
C19_Witness ==
    \E t \in Threads :
        /\ pc[t] = "commit"
        /\ Unreachable(t)
        /\ \E r \in jobs_tbl : r.source \in Sources

\* What the two scrapers of thread t's run returned, one list after the other.
Combined(t) ==
    ScraperResult(t, "Indeed").jobs \o ScraperResult(t, "WeWorkRemotely").jobs

\* C20, the step part.
C20_Commit ==
    \A t \in Threads :
        Commits(t) =>
            /\ Combined(t) = <<>> =>
                /\ jobs[t] = load_test_data
                /\ PlaceholderIds \subseteq IdsOf(jobs_tbl')
            /\ Combined(t) # <<>> =>
                /\ jobs[t] = Combined(t)
                /\ \A k \in 1..Len(jobs[t]) : jobs[t][k].id \notin PlaceholderIds
                /\ \A k \in 1..Len(jobs[t]) :
                     \E r \in jobs_tbl' :
                         Observable(r) = LastWithId(jobs[t], k)
                /\ \A r \in jobs_tbl' :
                     r \notin jobs_tbl =>
                         \E k \in 1..Len(jobs[t]) : jobs[t][k].id = r.id
                /\ {r \in jobs_tbl' : r.id \in PlaceholderIds}
                       = {r \in jobs_tbl : r.id \in PlaceholderIds}

\* C20 (placeholders only on an empty run): a run writes the placeholder
\* listings exactly when the two scrapers together returned no listing; a
\* run in which they returned one writes the scraped listings and nothing
\* else.
C20_PlaceholdersIffEmpty == [][C20_Commit]_vars

\* A run with a scraped listing is storing while table jobs holds the
\* placeholders of an earlier run.
C20_Witness ==
    \E t \in Threads :
        /\ pc[t] = "commit"
        /\ Combined(t) # <<>>
        /\ PlaceholderIds \subseteq IdsOf(jobs_tbl)
====
